---- MODULE Spec2Model ----
(***************************************************************************)
(* SocialSage agent system: the AgentSpawner (src/services/agent-spawner)  *)
(* and the HealthMonitor (src/health/killswitch) as one state machine.     *)
(*                                                                         *)
(* Execution model: one event loop.  A callback runs without interruption  *)
(* until it awaits an external call (sentiment/model fetch, swap           *)
(* submission, price read, strategy evaluation, balance read); each such   *)
(* await is a suspension point and ends an action.  An await on a method   *)
(* that performs no external call (Judge.evaluateOpportunity,              *)
(* AgentFactory.spawn, HealthMonitor.recordTrade, _checkHealth,            *)
(* _logTermination, monitorAgent) only yields to the microtask queue and   *)
(* is executed inside the action that reaches it.                          *)
(*                                                                         *)
(* Units: sentiment in tenths, confidence in hundredths, capital and       *)
(* balances in thousandths of the base asset, time in hours, ROI in        *)
(* percent.                                                                *)
(***************************************************************************)
EXTENDS Integers, Sequences, FiniteSets, TLC

(***************************************************************************)
(* Bounds of the model                                                     *)
(***************************************************************************)
\* spawn attempts (judgments that pass the gates of a tick) over a behaviour;
\* also the number of agent ids and of trades
MaxSpawnAttempts == 2
\* hours the clock may advance
MaxTime == 3
\* callbacks (health ticks, kills) of one agent that may be suspended at once
MaxOverlap == 2
\* killAgent calls made from outside the health timer
MaxKillCalls == 1
\* agents the HealthMonitor is followed with in SpecHealth
MaxSupervised == 1
\* recordTrade calls made from outside in SpecRecord
MaxRecordCalls == 2
\* trades recorded in SpecLedger, and the sells among them
MaxRecordings == 101
MaxSells == 1

(***************************************************************************)
(* Configuration and constants of the program                              *)
(***************************************************************************)
\* TOKEN_ADDRESSES: the tokens with a venue address (ETH is WETH)
TOKEN_ADDRESSES == {"ETH"}
\* this.monitoredTokens, in order: a token with an address and one without
monitoredTokens == <<"ETH", "BTC">>
Tokens == {monitoredTokens[i] : i \in 1..Len(monitoredTokens)}

\* SpawnConfig; maxAgentsPerToken is set by the deployment
\* (MAX_AGENTS_PER_TOKEN) and is kept small here
minSentiment == 3
maxAgentsPerToken == 1
minCapital == 100
maxCapital == 1000
\* the confidence gate of checkAndSpawnAgents (0.7)
minConfidence == 70

\* HealthConfig built by spawnAgent; minROI is taken from the environment
\* (MIN_ROI_PERCENTAGE) and fixed at construction
maxLoss == 20
maxInactivity == 2
MinROIChoices == {15, -10}

\* the inputs the environment may deliver
RoiPercents == {-25, 20}

Ids == 1..MaxSpawnAttempts
NoAnalysis == [sentiment |-> 0, confidence |-> 0, present |-> FALSE]
Judgment(sentiment, confidence) ==
  [sentiment |-> sentiment, confidence |-> confidence, present |-> TRUE]
Analyses == {NoAnalysis, Judgment(5, 90), Judgment(5, 100), Judgment(-5, 90),
             Judgment(0, 90), Judgment(5, 50)}

Abs(x) == IF x < 0 THEN -x ELSE x

VARIABLES
  \* ---- AgentSpawner
  activeAgents,    \* token -> set of agent ids
  tradeHistory,    \* the trade ledger
  positions,       \* token -> position object (0: no entry)
  posHeap,         \* position objects
  attemptLog,      \* spawn attempt -> what the attempt has done so far
  nextId,          \* next agent id
  attempts,        \* spawn attempts (qualifying judgments) handed out so far
  cTick,           \* checkAndSpawnAgents callbacks, one per timer
  sPass,           \* monitorAndSpawn callbacks, one per timer
  \* ---- HealthMonitor
  agents,          \* ids in the supervised map
  records,         \* id -> HealthRecord object
  timer,           \* id -> its interval is scheduled
  inflight,        \* id -> suspended callbacks of that agent
  terminationLog,  \* id -> reasons of its termination audit records, in order
  withdrawals,     \* id -> balance reads made by _withdrawFunds, and how many raised
  killRaised,      \* some killAgent call has raised
  metricReadFailed,\* ids whose latest balance read of _updateMetrics raised
  killCalls,       \* external killAgent calls that found the agent present / absent
  \* ---- environment
  minROI,
  now,
  \* ---- the capital computations applied to one judgment
  calc,
  \* ---- one call of UniswapService.executeTrade / executeTradeWithETH
  swap,
  \* ---- one call of VeniceAI.analyzeSentimentAndMarket
  engine

spawnerVars == <<activeAgents, tradeHistory, positions, posHeap, attemptLog, nextId,
                 attempts, cTick, sPass>>
healthVars == <<agents, records, timer, inflight, terminationLog, withdrawals, killRaised,
                metricReadFailed>>
callVars == <<killCalls>>
vars == <<spawnerVars, healthVars, callVars, minROI, now, calc, swap, engine>>

(***************************************************************************)
(* HealthMonitor (src/health/killswitch.ts, lines 40-290)                  *)
(***************************************************************************)
Upd == [op |-> "upd", by |-> "tick", reason |-> "none"]
KillCall(by, reason) == [op |-> "kill", by |-> by, reason |-> reason]
CallKinds == {Upd, KillCall("ext", "external")}
               \cup {KillCall("tick", r) : r \in {"inactive", "roi", "loss"}}
KillKinds == {k \in CallKinds : k.op = "kill"}

\* measured is not a field of the code: it tells whether roi has been computed
\* from a balance read or is still the value monitorAgent wrote
NoRecord == [lastActivity |-> 0, roi |-> 0, drawdown |-> 0, successful |-> 0,
             failed |-> 0, totalVolume |-> 0, capital |-> 0, measured |-> FALSE]

RECURSIVE SumOver(_, _)
SumOver(f, S) == IF S = {} THEN 0
                 ELSE LET x == CHOOSE y \in S : TRUE IN f[x] + SumOver(f, S \ {x})
InFlight(a) == SumOver(inflight[a], CallKinds)
Suspend(a, k) == [inflight EXCEPT ![a][k] = @ + 1]
Resume(a, k) == [inflight EXCEPT ![a][k] = @ - 1]

\* a record that starts with the spawning trade counted
NewRecordCounting(capital) ==
  [lastActivity |-> now, roi |-> 0, drawdown |-> 0, successful |-> 1, failed |-> 0,
   totalVolume |-> capital, capital |-> capital, measured |-> FALSE]

\* monitorAgent: the record a new agent starts with
NewRecord(capital) == [lastActivity |-> now, roi |-> 0, drawdown |-> 0, successful |-> 0,
                       failed |-> 0, totalVolume |-> 0, capital |-> capital,
                       measured |-> FALSE]

\* _checkHealth with the ROI floor evaluated before inactivity
CheckHealthRoiFirst(rec, t) ==
  IF rec.roi < minROI THEN [healthy |-> FALSE, reason |-> "roi"]
  ELSE IF t - rec.lastActivity > maxInactivity THEN [healthy |-> FALSE, reason |-> "inactive"]
  ELSE IF rec.drawdown > maxLoss THEN [healthy |-> FALSE, reason |-> "loss"]
  ELSE [healthy |-> TRUE, reason |-> "none"]

\* a _checkHealth without the inactivity test
CheckHealthNoInactivity(rec, t) ==
  IF rec.roi < minROI THEN [healthy |-> FALSE, reason |-> "roi"]
  ELSE IF rec.drawdown > maxLoss THEN [healthy |-> FALSE, reason |-> "loss"]
  ELSE [healthy |-> TRUE, reason |-> "none"]

\* _checkHealth: the conditions in the order of the code
CheckHealth(rec, t) ==
  IF t - rec.lastActivity > maxInactivity THEN [healthy |-> FALSE, reason |-> "inactive"]
  ELSE IF rec.roi < minROI THEN [healthy |-> FALSE, reason |-> "roi"]
  ELSE IF rec.drawdown > maxLoss THEN [healthy |-> FALSE, reason |-> "loss"]
  ELSE [healthy |-> TRUE, reason |-> "none"]

\* _updateMetrics: roi from the balance read and the initial capital
Roi(balance, capital) == ((balance - capital) * 100) \div capital
Balances(capital) == {(capital * (100 + p)) \div 100 : p \in RoiPercents}
UpdatedMetrics(rec, balance) ==
  LET roi == Roi(balance, rec.capital) IN
  [rec EXCEPT !.roi = roi, !.drawdown = IF roi < 0 THEN Abs(roi) ELSE @,
              !.measured = TRUE]

\* recordTrade without the refresh of lastActivity
RecordedTradeStale(rec, successful, volume) ==
  [rec EXCEPT !.successful = IF successful THEN @ + 1 ELSE @,
              !.failed = IF successful THEN @ ELSE @ + 1,
              !.totalVolume = @ + volume]

\* recordTrade: counters, volume and lastActivity of a supervised agent
RecordedTrade(rec, successful, volume) ==
  [rec EXCEPT !.successful = IF successful THEN @ + 1 ELSE @,
              !.failed = IF successful THEN @ ELSE @ + 1,
              !.totalVolume = @ + volume,
              !.lastActivity = now]

\* killAgent without its presence check
KillAgentUnchecked(a) == TRUE

\* killAgent line 221-222: the presence check
KillAgentPresent(a) == a \in agents

\* _withdrawFunds without its try/catch: the error reaches killAgent
WithdrawFundsRethrows(raised) == raised

\* _withdrawFunds: an error of the balance read is caught and logged
WithdrawFundsThrows(raised) == FALSE

\* the interval callback of _startMonitoring, up to its first suspension
HealthTick(a) ==
  /\ timer[a]
  /\ InFlight(a) < MaxOverlap
  /\ IF a \notin agents
       THEN /\ timer' = [timer EXCEPT ![a] = FALSE]
            /\ UNCHANGED inflight
       ELSE LET health == CheckHealth(records[a], now) IN
            /\ inflight' = IF health.healthy THEN Suspend(a, Upd)
                           ELSE Suspend(a, KillCall("tick", health.reason))
            /\ UNCHANGED timer
  /\ UNCHANGED <<agents, records, terminationLog, withdrawals, killRaised, metricReadFailed>>
  /\ UNCHANGED <<spawnerVars, callVars, minROI, now, calc, swap, engine>>

\* killAgent resumed after the balance read of _withdrawFunds; for a kill made
\* by the interval callback, the rest of the callback follows
KillResume(a, k, raised) ==
  /\ k \in KillKinds
  /\ inflight[a][k] > 0
  /\ inflight' = Resume(a, k)
  /\ withdrawals' = [withdrawals EXCEPT ![a].reads = @ + 1,
                                          ![a].raised = IF raised THEN @ + 1 ELSE @]
  /\ IF WithdrawFundsThrows(raised)
       THEN /\ killRaised' = TRUE
            /\ UNCHANGED <<agents, terminationLog, timer>>
       ELSE /\ terminationLog' = IF a \in agents
                                   THEN [terminationLog EXCEPT ![a] = Append(@, k.reason)]
                                   ELSE terminationLog
            /\ agents' = agents \ {a}
            /\ timer' = IF k.by = "tick" THEN [timer EXCEPT ![a] = FALSE] ELSE timer
            /\ UNCHANGED killRaised
  /\ UNCHANGED <<records, metricReadFailed>>
  /\ UNCHANGED <<spawnerVars, callVars, minROI, now, calc, swap, engine>>

\* _updateMetrics with a failed balance read ending the supervision
UpdateMetricsGivesUp(raised) == raised

\* _updateMetrics lines 215-217: an error of the balance read is caught and
\* logged; it ends neither the supervision nor the interval
UpdateMetricsEscalates(raised) == FALSE

\* _updateMetrics resumed after its balance read
UpdResume(a, raised, balance) ==
  /\ inflight[a][Upd] > 0
  /\ inflight' = Resume(a, Upd)
  /\ IF raised
       THEN /\ agents' = IF UpdateMetricsEscalates(raised) THEN agents \ {a} ELSE agents
            /\ metricReadFailed' = metricReadFailed \cup {a}
            /\ UNCHANGED records
       ELSE /\ records' = [records EXCEPT ![a] = UpdatedMetrics(@, balance)]
            /\ agents' = agents \cup {a}
            /\ metricReadFailed' = metricReadFailed \ {a}
  /\ UNCHANGED <<timer, terminationLog, withdrawals, killRaised>>
  /\ UNCHANGED <<spawnerVars, callVars, minROI, now, calc, swap, engine>>

\* the ids monitorAgent has been called for
Known == {a \in Ids : records[a] # NoRecord}

\* killAgent called from outside the interval callback, for an id the monitor
\* has seen
KillAgentCall(a) ==
  /\ a \in Known
  /\ killCalls.present + killCalls.absent < MaxKillCalls
  /\ KillAgentPresent(a) => InFlight(a) < MaxOverlap
  /\ killCalls' = IF a \in agents THEN [killCalls EXCEPT !.present = @ + 1]
                  ELSE [killCalls EXCEPT !.absent = @ + 1]
  /\ inflight' = IF KillAgentPresent(a) THEN Suspend(a, KillCall("ext", "external"))
                 ELSE inflight
  /\ UNCHANGED <<agents, records, timer, terminationLog, withdrawals, killRaised, metricReadFailed>>
  /\ UNCHANGED <<spawnerVars, minROI, now, calc, swap, engine>>

\* recordTrade called for an id the monitor has seen (lines 273-289); the
\* volumes are the trade amounts of the spawner
Volumes == {minCapital}
RecordTradeCall(a, successful, volume) ==
  /\ a \in Known
  /\ records[a].successful + records[a].failed < MaxRecordCalls
  /\ records' = IF a \in agents
                  THEN [records EXCEPT ![a] = RecordedTrade(@, successful, volume)]
                  ELSE records
  /\ UNCHANGED <<agents, timer, inflight, terminationLog, withdrawals, killRaised,
                 metricReadFailed>>
  /\ UNCHANGED <<spawnerVars, callVars, minROI, now, calc, swap, engine>>

\* the clock
Advance ==
  /\ now < MaxTime
  /\ now' = now + 1
  /\ UNCHANGED <<spawnerVars, healthVars, callVars, minROI, calc, swap, engine>>

(***************************************************************************)
(* AgentSpawner (src/services/agent-spawner.ts, lines 611-1184)            *)
(***************************************************************************)
\* the interval timers of a spawner: checkAndSpawnAgents is called by main's
\* interval (and by startMonitoring's, which behaves the same and is followed
\* as the same timer), monitorAndSpawn by mainOld's; each timer has at most
\* one callback in flight
TickTimers == {"main"}
PassTimers == {"mainOld"}
\* setInterval does not wait for the previous callback: a second
\* monitorAndSpawn callback of the same timer may start while the first is
\* suspended
PassCallbacks == PassTimers \cup {"mainOld.next"}
\* callbacks of startMonitoring's interval that can be running at once
TickCallbacks == TickTimers \cup {"main.next"}

\* the ledger keeps the last LedgerCap trades
LedgerCap == 100

\* swaps is not a field of the code: it counts, per token, the swaps the
\* running callback has submitted
Idle == [pc |-> "idle", idx |-> 0, analysis |-> NoAnalysis, att |-> 0, ref |-> 0,
         swaps |-> [t \in Tokens |-> 0]]
\* an attempt: its token and path, the swap it submitted, what executeTrade
\* returned (tx), the agent it created (0: none), and how far the recording of
\* its trade got
NoAttempt == [token |-> "", path |-> "", swap |-> "none", active |-> 0, tx |-> "none",
              agent |-> 0, recording |-> "none", posUpdated |-> FALSE,
              supervised |-> {}, recorded |-> {}, capital |-> 0]
NoPosition == [amount |-> 0, entryPrice |-> 0]

\* calculatePositionSize
calculatePositionSize(confidence) ==
  minCapital + ((maxCapital - minCapital) * (confidence - 70)) \div 30

\* Judge.evaluateOpportunity as called by AgentSpawner.evaluateOpportunity
JudgeEvaluation(analysis) == [shouldSpawn |-> TRUE, capital |-> minCapital]

\* ------------------------------------------------ the capital computations
\* the judgments they are applied to: sentiment in [-1, 1], confidence in [0, 1]
CalcSentiments == -10..10
CalcConfidences == 0..100
NoCalc == [pc |-> "idle", analysis |-> NoAnalysis, size |-> 0,
           evaluation |-> [shouldSpawn |-> FALSE, capital |-> 0]]

\* a judgment arrives
Draw(sentiment, confidence) ==
  /\ calc.pc = "idle"
  /\ calc' = [calc EXCEPT !.pc = "drawn", !.analysis = Judgment(sentiment, confidence)]
  /\ UNCHANGED <<spawnerVars, healthVars, callVars, minROI, now, swap, engine>>

\* calculatePositionSize and evaluateOpportunity applied to it
Apply ==
  /\ calc.pc = "drawn"
  /\ calc' = [calc EXCEPT !.pc = "applied",
                          !.size = calculatePositionSize(calc.analysis.confidence),
                          !.evaluation = JudgeEvaluation(calc.analysis)]
  /\ UNCHANGED <<spawnerVars, healthVars, callVars, minROI, now, swap, engine>>

\* the price string of a recorded trade, and BigInt() of it
TradePrice == "0.0"
IsBigIntLiteral(str) == str \in {"0", "1", "2"}

\* executeTrade lines 701/739: the direction of the swap
Direction(sentiment) == IF sentiment > 0 THEN "buy"
                        ELSE IF sentiment < 0 THEN "sell" ELSE "none"

Trade(token, type, amount, att) ==
  [token |-> token, type |-> type, amount |-> amount, price |-> TradePrice,
   txHash |-> att, status |-> "completed"]

\* an attempt that submits its swap: the kind of swap and the number of
\* active agents of the token at that moment
Submitted(log, att, token, path, type) ==
  [log EXCEPT ![att].token = token, ![att].path = path, ![att].swap = type,
              ![att].active = Cardinality(activeAgents[token])]
\* an attempt whose executeTrade returns null before any swap
Unsubmitted(log, att, token, path) ==
  [log EXCEPT ![att].token = token, ![att].path = path, ![att].tx = "null"]

\* _recordTrade line 998-1000
Sliced(ledger) == IF Len(ledger) > LedgerCap
                    THEN SubSeq(ledger, Len(ledger) - LedgerCap + 1, Len(ledger))
                    ELSE ledger

\* the position object updatePosition works on (line 950)
PositionRef(token, att) == IF positions[token] # 0 THEN positions[token] ELSE att

\* a loop that stays at the token it has just handled
Retrying(p) == [Idle EXCEPT !.pc = "analysis", !.idx = p.idx, !.swaps = p.swaps]

\* the next token of the loop, or the end of the callback
Following(p) == IF p.idx < Len(monitoredTokens)
                  THEN [Idle EXCEPT !.pc = "analysis", !.idx = p.idx + 1,
                                    !.swaps = p.swaps]
                  ELSE Idle
\* a loop that an iteration's outcome ends
StoppingWith(p) == [Idle EXCEPT !.analysis = p.analysis]

\* the same for checkAndSpawnAgents, whose record keeps the judgment of the
\* iteration it has just finished
FollowingWith(p) == [Following(p) EXCEPT !.analysis = p.analysis]

\* a capacity check that lets every spawn through
AtCapacityNever(token) == FALSE

\* spawnAgent lines 1117-1121: the capacity check
AtCapacity(token) == Cardinality(activeAgents[token]) >= maxAgentsPerToken

\* a spawnAgent that registers the agent with the HealthMonitor and leaves
\* the token's set as it is
SpawnAgentUntracked(token, analysis, att, log) ==
  IF AtCapacity(token)
    THEN /\ attemptLog' = log
         /\ UNCHANGED <<activeAgents, nextId, agents, timer>>
    ELSE /\ UNCHANGED activeAgents
         /\ nextId' = nextId + 1
         /\ agents' = agents \cup {nextId}
         /\ timer' = [timer EXCEPT ![nextId] = TRUE]
         /\ attemptLog' = [log EXCEPT ![att].agent = nextId]

\* spawnAgent: capacity check, id, registration with the HealthMonitor
SpawnAgent(token, analysis, att, log) ==
  IF AtCapacity(token)
    THEN /\ attemptLog' = log
         /\ UNCHANGED <<activeAgents, nextId, agents, timer>>
    ELSE /\ activeAgents' = [activeAgents EXCEPT ![token] = @ \cup {nextId}]
         /\ nextId' = nextId + 1
         /\ agents' = agents \cup {nextId}
         /\ timer' = [timer EXCEPT ![nextId] = TRUE]
         /\ attemptLog' = [log EXCEPT ![att].agent = nextId]

\* monitorAgent's record for the agent spawnAgent registers, if it registers one
Registered(recs, token, analysis) ==
  IF AtCapacity(token) THEN recs
  ELSE [recs EXCEPT ![nextId] = NewRecord(calculatePositionSize(analysis.confidence))]

\* ------------------------------------------------ checkAndSpawnAgents
CStart(k) ==
  /\ cTick[k].pc = "idle"
  /\ cTick' = [cTick EXCEPT ![k] = [Idle EXCEPT !.pc = "analysis", !.idx = 1]]
  /\ UNCHANGED <<activeAgents, tradeHistory, positions, posHeap, attemptLog, nextId,
                 attempts, sPass>>
  /\ UNCHANGED <<healthVars, callVars, minROI, now, calc, swap, engine>>

\* a gate without the null check of line 1084 and with thresholds of 0
CGateOpen(analysis) ==
  /\ analysis.sentiment >= 0
  /\ analysis.confidence >= 0

\* line 1089: the gate of the tick
CGate(analysis) ==
  /\ analysis.present
  /\ analysis.sentiment >= minSentiment
  /\ analysis.confidence >= minConfidence

\* getMarketAnalysis returned; gate, position size, executeTrade up to the swap
CAnalysis(k, analysis) ==
  LET p == cTick[k]
      token == monitoredTokens[p.idx]
      q == [p EXCEPT !.analysis = analysis]
      att == attempts + 1
      amount == calculatePositionSize(analysis.confidence)
  IN
  /\ p.pc = "analysis"
  /\ CGate(analysis) => attempts < MaxSpawnAttempts
  /\ IF ~CGate(analysis)
       THEN /\ cTick' = [cTick EXCEPT ![k] = FollowingWith(q)]
            /\ UNCHANGED <<attempts, attemptLog, activeAgents, nextId, agents,
                           records, timer>>
       ELSE /\ attempts' = att
            /\ IF token \in TOKEN_ADDRESSES /\ Direction(analysis.sentiment) # "none"
                 THEN /\ attemptLog' = Submitted(attemptLog, att, token, "check",
                                                 Direction(analysis.sentiment))
                      /\ cTick' = [cTick EXCEPT ![k] = [q EXCEPT !.pc = "swap", !.att = att,
                                                                  !.swaps[token] = @ + 1]]
                      /\ UNCHANGED <<activeAgents, nextId, agents, records, timer>>
                 ELSE \* executeTrade returned null; spawnAgent follows
                      /\ SpawnAgent(token, analysis, att,
                                    Unsubmitted(attemptLog, att, token, "check"))
                      /\ records' = Registered(records, token, analysis)
                      /\ cTick' = [cTick EXCEPT ![k] = FollowingWith(q)]
  /\ UNCHANGED <<tradeHistory, positions, posHeap, sPass>>
  /\ UNCHANGED <<inflight, terminationLog, withdrawals, killRaised, metricReadFailed, callVars, minROI, now, calc, swap, engine>>

\* _recordTrade line 994 and updatePosition up to the price read
RecordStart(p, token, amount) ==
  /\ tradeHistory' = Append(tradeHistory,
                            Trade(token, Direction(p.analysis.sentiment), amount, p.att))
  /\ attemptLog' = [attemptLog EXCEPT ![p.att].recording = "pending"]

BigIntOf(str) == IF str = "1" THEN 1 ELSE IF str = "2" THEN 2 ELSE 0

\* updatePosition after the price read (lines 962-972): whether it raises
UpdateRaises(type, obj, amount) ==
  type = "buy" /\ (~IsBigIntLiteral(TradePrice) \/ obj.amount + amount = 0)

\* an updatePosition whose sell branch also writes entryPrice
UpdatedPositionRepriced(type, obj, amount) ==
  IF type = "buy"
    THEN [amount |-> obj.amount + amount,
          entryPrice |-> (obj.amount * obj.entryPrice + amount * BigIntOf(TradePrice))
                           \div (obj.amount + amount)]
    ELSE [amount |-> obj.amount - amount, entryPrice |-> amount]

\* updatePosition lines 965-989: the position object it stores
UpdatedPosition(type, obj, amount) ==
  IF type = "buy"
    THEN [amount |-> obj.amount + amount,
          entryPrice |-> (obj.amount * obj.entryPrice + amount * BigIntOf(TradePrice))
                           \div (obj.amount + amount)]
    ELSE [obj EXCEPT !.amount = @ - amount]

\* executeTrade lines 730-733: the agents of the token get the trade recorded
HealthRecorded(recs, token, amount) ==
  [a \in Ids |-> IF a \in activeAgents[token] /\ a \in agents
                   THEN RecordedTrade(recs[a], TRUE, amount) ELSE recs[a]]

\* the swap returned to checkAndSpawnAgents
CSwap(k, ok) ==
  LET p == cTick[k]
      token == monitoredTokens[p.idx]
      amount == calculatePositionSize(p.analysis.confidence)
  IN
  /\ p.pc = "swap"
  /\ IF ok
       THEN /\ RecordStart(p, token, amount)
            /\ cTick' = [cTick EXCEPT ![k] = [p EXCEPT !.pc = "price",
                                                       !.ref = PositionRef(token, p.att)]]
            /\ UNCHANGED <<activeAgents, nextId, agents, records, timer>>
       ELSE /\ SpawnAgent(token, p.analysis, p.att, [attemptLog EXCEPT ![p.att].tx = "null"])
            /\ records' = Registered(records, token, p.analysis)
            /\ cTick' = [cTick EXCEPT ![k] = FollowingWith(p)]
            /\ UNCHANGED tradeHistory
  /\ UNCHANGED <<positions, posHeap, attempts, sPass>>
  /\ UNCHANGED <<inflight, terminationLog, withdrawals, killRaised, metricReadFailed, callVars, minROI, now, calc, swap, engine>>

\* the price read of updatePosition returned to checkAndSpawnAgents: the rest
\* of _recordTrade and executeTrade, then spawnAgent
CPrice(k) ==
  LET p == cTick[k]
      token == monitoredTokens[p.idx]
      type == Direction(p.analysis.sentiment)
      amount == calculatePositionSize(p.analysis.confidence)
      obj == posHeap[p.ref]
      threw == [attemptLog EXCEPT ![p.att].recording = "threw", ![p.att].tx = "null"]
      done == [attemptLog EXCEPT
                 ![p.att].recording = "done", ![p.att].tx = "hash",
                 ![p.att].posUpdated = TRUE,
                 ![p.att].supervised = activeAgents[token] \cap agents,
                 ![p.att].recorded = IF type = "buy" THEN activeAgents[token] \cap agents
                                     ELSE {}]
  IN
  /\ p.pc = "price"
  /\ IF UpdateRaises(type, obj, amount)
       THEN /\ SpawnAgent(token, p.analysis, p.att, threw)
            /\ records' = Registered(records, token, p.analysis)
            /\ UNCHANGED <<positions, posHeap, tradeHistory>>
       ELSE /\ posHeap' = [posHeap EXCEPT ![p.ref] = UpdatedPosition(type, obj, amount)]
            /\ positions' = [positions EXCEPT ![token] = p.ref]
            /\ tradeHistory' = Sliced(tradeHistory)
            /\ SpawnAgent(token, p.analysis, p.att, done)
            /\ records' = Registered(IF type = "buy"
                                       THEN HealthRecorded(records, token, amount)
                                       ELSE records, token, p.analysis)
  /\ cTick' = [cTick EXCEPT ![k] = FollowingWith(p)]
  /\ UNCHANGED <<attempts, sPass>>
  /\ UNCHANGED <<inflight, terminationLog, withdrawals, killRaised, metricReadFailed, callVars, minROI, now, calc, swap, engine>>

\* ------------------------------------------------ monitorAndSpawn
SStart(k) ==
  /\ sPass[k].pc = "idle"
  /\ sPass' = [sPass EXCEPT ![k] = [Idle EXCEPT !.pc = "analysis", !.idx = 1]]
  /\ UNCHANGED <<activeAgents, tradeHistory, positions, posHeap, attemptLog, nextId,
                 attempts, cTick>>
  /\ UNCHANGED <<healthVars, callVars, minROI, now, calc, swap, engine>>

\* spawnAgentsForToken lines 805-836: analysis, sentiment threshold, capacity
\* and the Judge
SGate(token, analysis) ==
  /\ analysis.present
  /\ Abs(analysis.sentiment) >= minSentiment
  /\ Cardinality(activeAgents[token]) < maxAgentsPerToken
  /\ JudgeEvaluation(analysis).shouldSpawn

\* getMarketAnalysis returned to spawnAgentsForToken; executeTrade up to the swap
SAnalysis(k, analysis) ==
  LET p == sPass[k]
      token == monitoredTokens[p.idx]
      q == [p EXCEPT !.analysis = analysis]
      att == attempts + 1
      amount == JudgeEvaluation(analysis).capital
  IN
  /\ p.pc = "analysis"
  /\ SGate(token, analysis) => attempts < MaxSpawnAttempts
  /\ IF ~SGate(token, analysis)
       THEN /\ sPass' = [sPass EXCEPT ![k] = Following(q)]
            /\ UNCHANGED <<attempts, attemptLog>>
       ELSE /\ attempts' = att
            /\ IF token \in TOKEN_ADDRESSES /\ Direction(analysis.sentiment) # "none"
                 THEN /\ attemptLog' = Submitted(attemptLog, att, token, "pass",
                                                 Direction(analysis.sentiment))
                      /\ sPass' = [sPass EXCEPT ![k] = [q EXCEPT !.pc = "swap", !.att = att,
                                                                  !.swaps[token] = @ + 1]]
                 ELSE \* executeTrade returned null: trade execution failed
                      /\ attemptLog' = Unsubmitted(attemptLog, att, token, "pass")
                      /\ sPass' = [sPass EXCEPT ![k] = Following(q)]
  /\ UNCHANGED <<activeAgents, tradeHistory, positions, posHeap, nextId, cTick>>
  /\ UNCHANGED <<healthVars, callVars, minROI, now, calc, swap, engine>>

\* the swap returned to spawnAgentsForToken
SSwap(k, ok) ==
  LET p == sPass[k]
      token == monitoredTokens[p.idx]
      amount == JudgeEvaluation(p.analysis).capital
  IN
  /\ p.pc = "swap"
  /\ IF ok
       THEN /\ RecordStart(p, token, amount)
            /\ sPass' = [sPass EXCEPT ![k] = [p EXCEPT !.pc = "price",
                                                       !.ref = PositionRef(token, p.att)]]
       ELSE /\ attemptLog' = [attemptLog EXCEPT ![p.att].tx = "null"]
            /\ sPass' = [sPass EXCEPT ![k] = Following(p)]
            /\ UNCHANGED tradeHistory
  /\ UNCHANGED <<activeAgents, positions, posHeap, nextId, attempts, cTick>>
  /\ UNCHANGED <<healthVars, callVars, minROI, now, calc, swap, engine>>

\* the price read of updatePosition returned to spawnAgentsForToken: the rest
\* of _recordTrade and executeTrade, then getAgentTemplate up to the strategy
\* evaluation
SPrice(k) ==
  LET p == sPass[k]
      token == monitoredTokens[p.idx]
      type == Direction(p.analysis.sentiment)
      amount == JudgeEvaluation(p.analysis).capital
      obj == posHeap[p.ref]
  IN
  /\ p.pc = "price"
  /\ IF UpdateRaises(type, obj, amount)
       THEN /\ attemptLog' = [attemptLog EXCEPT ![p.att].recording = "threw",
                                                ![p.att].tx = "null"]
            /\ sPass' = [sPass EXCEPT ![k] = Following(p)]
            /\ UNCHANGED <<positions, posHeap, tradeHistory, records>>
       ELSE /\ posHeap' = [posHeap EXCEPT ![p.ref] = UpdatedPosition(type, obj, amount)]
            /\ positions' = [positions EXCEPT ![token] = p.ref]
            /\ tradeHistory' = Sliced(tradeHistory)
            /\ records' = IF type = "buy" THEN HealthRecorded(records, token, amount)
                          ELSE records
            /\ attemptLog' = [attemptLog EXCEPT
                 ![p.att].recording = "done", ![p.att].tx = "hash",
                 ![p.att].posUpdated = TRUE,
                 ![p.att].supervised = activeAgents[token] \cap agents,
                 ![p.att].recorded = IF type = "buy" THEN activeAgents[token] \cap agents
                                     ELSE {}]
            /\ sPass' = [sPass EXCEPT ![k] = [p EXCEPT !.pc = "strategy"]]
  /\ UNCHANGED <<activeAgents, nextId, attempts, cTick>>
  /\ UNCHANGED <<agents, timer, inflight, terminationLog, withdrawals, killRaised, metricReadFailed>>
  /\ UNCHANGED <<callVars, minROI, now, calc, swap, engine>>

\* evaluateStrategy's adjustedConfig (part_008 line 160): the configuration it
\* was given, or the one the model's answer carries, which nothing validates
AdjustedCapitals(config) == {config.capital, maxCapital + minCapital}

\* evaluateStrategy returned to getAgentTemplate; AgentFactory.spawn and the
\* tracking of the new agent (lines 859-878)
SStrategy(k, shouldExecute, adjusted) ==
  LET p == sPass[k]
      token == monitoredTokens[p.idx]
  IN
  /\ p.pc = "strategy"
  /\ adjusted \in AdjustedCapitals(JudgeEvaluation(p.analysis))
  /\ IF shouldExecute
       THEN /\ activeAgents' = [activeAgents EXCEPT ![token] = @ \cup {nextId}]
            /\ nextId' = nextId + 1
            /\ attemptLog' = [attemptLog EXCEPT ![p.att].agent = nextId,
                                                ![p.att].capital = adjusted]
       ELSE UNCHANGED <<activeAgents, nextId, attemptLog>>
  /\ sPass' = [sPass EXCEPT ![k] = Following(p)]
  /\ UNCHANGED <<tradeHistory, positions, posHeap, attempts, cTick>>
  /\ UNCHANGED <<healthVars, callVars, minROI, now, calc, swap, engine>>

(***************************************************************************)
(* UniswapService (src/services/agent-spawner.ts, lines 1199-1364)         *)
(* Amounts are in base units, slippage in hundred-thousandths.             *)
(***************************************************************************)
WETH_ADDRESS == "WETH"
SwapTokens == {WETH_ADDRESS, "USDC"}
SwapAmounts == {0, 1, 10000, 20000}
Slippages == {0, 5, 500, 100000}

NoSwap == [pc |-> "idle", kind |-> "none", tokenIn |-> "none", amountIn |-> 0,
           slippage |-> 0, allowance |-> "unread", approval |-> "none",
           submitted |-> FALSE, amountOutMinimum |-> 0, outcome |-> "none"]

\* Math.floor((1 - slippage) * 10000)
SlippageFactor(slippage) == (100000 - slippage) \div 10
\* amountIn * BigInt(...) / BigInt(10000)
MinAmountOut(amountIn, slippage) == (amountIn * SlippageFactor(slippage)) \div 10000

\* an executeTrade that goes to the router whatever the input token is
NeedsNoAllowance(tokenIn) == FALSE

\* executeTrade line 1277
NeedsAllowance(tokenIn) == tokenIn # WETH_ADDRESS

\* the call of router.exactInputSingle with its parameters
RouterCalled(s) == [s EXCEPT !.pc = "router", !.submitted = TRUE,
                             !.amountOutMinimum = MinAmountOut(s.amountIn, s.slippage)]
\* the catch block: the error is logged and thrown again
SwapRaised(s) == [s EXCEPT !.pc = "done", !.outcome = "raised"]

ExecuteTrade(tokenIn, amountIn, slippage) ==
  LET s == [NoSwap EXCEPT !.kind = "token", !.tokenIn = tokenIn, !.amountIn = amountIn,
                          !.slippage = slippage]
  IN
  /\ swap.pc = "idle"
  /\ swap' = IF NeedsAllowance(tokenIn) THEN [s EXCEPT !.pc = "allowance"]
             ELSE RouterCalled(s)
  /\ UNCHANGED <<spawnerVars, healthVars, callVars, minROI, now, calc, engine>>

ExecuteTradeWithETH(amountIn, slippage) ==
  /\ swap.pc = "idle"
  /\ swap' = RouterCalled([NoSwap EXCEPT !.kind = "eth", !.tokenIn = WETH_ADDRESS,
                                         !.amountIn = amountIn, !.slippage = slippage])
  /\ UNCHANGED <<spawnerVars, healthVars, callVars, minROI, now, calc, engine>>

\* checkAllowance returned to executeTrade
AllowanceResults == {"sufficient", "insufficient", "failed"}
AllowanceRead(result) ==
  /\ swap.pc = "allowance"
  /\ swap' = LET s == [swap EXCEPT !.allowance = result] IN
             IF result = "failed" THEN SwapRaised(s)
             ELSE IF result = "insufficient" THEN [s EXCEPT !.pc = "approve"]
             ELSE RouterCalled(s)
  /\ UNCHANGED <<spawnerVars, healthVars, callVars, minROI, now, calc, engine>>

\* approve returned to executeTrade: the approval was sent and tx.wait()
\* returned, or one of the two raised
ApprovalResults == {"confirmed", "failed"}
ApproveDone(result) ==
  /\ swap.pc = "approve"
  /\ swap' = LET s == [swap EXCEPT !.approval = result] IN
             IF result = "failed" THEN SwapRaised(s) ELSE RouterCalled(s)
  /\ UNCHANGED <<spawnerVars, healthVars, callVars, minROI, now, calc, engine>>

\* router.exactInputSingle returned
RouterReturns(ok) ==
  /\ swap.pc = "router"
  /\ swap' = IF ok THEN [swap EXCEPT !.pc = "done", !.outcome = "tx"]
             ELSE SwapRaised(swap)
  /\ UNCHANGED <<spawnerVars, healthVars, callVars, minROI, now, calc, engine>>

\* the caller has the result
SwapReturn ==
  /\ swap.pc = "done"
  /\ swap' = NoSwap
  /\ UNCHANGED <<spawnerVars, healthVars, callVars, minROI, now, calc, engine>>

(***************************************************************************)
(* VeniceAI.analyzeSentimentAndMarket (unnamed/part_008, lines 79-125)     *)
(***************************************************************************)
\* posts handed to one analysis
MaxPosts == 2
Fallback == [sentiment |-> 0, confidence |-> 50, marketCondition |-> "neutral"]
NoAnswer == [sentiment |-> 0, confidence |-> 0, marketCondition |-> "none"]
\* what the model can put into its JSON answer
Answers == [sentiment : {-10, -5, 0, 5, 10}, confidence : {0, 50, 90, 100},
            marketCondition : {"bullish", "bearish", "neutral"}]
ResponseKinds == {"failure", "unparseable", "json"}
NoEngine == [pc |-> "idle", posts |-> 0, response |-> "none", result |-> NoAnswer]

AnalyzeSentimentAndMarket(posts) ==
  /\ engine.pc = "idle"
  /\ engine' = [NoEngine EXCEPT !.pc = "query", !.posts = posts]
  /\ UNCHANGED <<spawnerVars, healthVars, callVars, minROI, now, calc, swap>>

\* query returned or raised; JSON.parse; the catch block
Analyzed(kind, answer) == IF kind = "json" THEN answer ELSE Fallback
QueryReturns(kind, answer) ==
  /\ engine.pc = "query"
  /\ engine' = [engine EXCEPT !.pc = "done", !.response = kind,
                              !.result = Analyzed(kind, answer)]
  /\ UNCHANGED <<spawnerVars, healthVars, callVars, minROI, now, calc, swap>>

EngineReturn ==
  /\ engine.pc = "done"
  /\ engine' = NoEngine
  /\ UNCHANGED <<spawnerVars, healthVars, callVars, minROI, now, calc, swap>>

(***************************************************************************)
(* The system                                                              *)
(***************************************************************************)
Init ==
  /\ activeAgents = [t \in Tokens |-> {}]
  /\ tradeHistory = <<>>
  /\ positions = [t \in Tokens |-> 0]
  /\ posHeap = [i \in Ids |-> NoPosition]
  /\ attemptLog = [i \in Ids |-> NoAttempt]
  /\ nextId = 1
  /\ attempts = 0
  /\ cTick = [k \in TickCallbacks |-> Idle]
  /\ sPass = [k \in PassCallbacks |-> Idle]
  /\ agents = {}
  /\ records = [a \in Ids |-> NoRecord]
  /\ timer = [a \in Ids |-> FALSE]
  /\ inflight = [a \in Ids |-> [c \in CallKinds |-> 0]]
  /\ terminationLog = [a \in Ids |-> <<>>]
  /\ withdrawals = [a \in Ids |-> [reads |-> 0, raised |-> 0]]
  /\ killRaised = FALSE
  /\ metricReadFailed = {}
  /\ killCalls = [present |-> 0, absent |-> 0]
  /\ minROI \in MinROIChoices
  /\ now = 0
  /\ calc = NoCalc
  /\ swap = NoSwap
  /\ engine = NoEngine

\* the two spawn paths
TickStep ==
  \/ \E k \in TickTimers : CStart(k)
  \/ \E k \in TickTimers, analysis \in Analyses : CAnalysis(k, analysis)
  \/ \E k \in TickTimers, ok \in BOOLEAN : CSwap(k, ok)
  \/ \E k \in TickTimers : CPrice(k)
PassStep ==
  \/ \E k \in PassTimers : SStart(k)
  \/ \E k \in PassTimers, analysis \in Analyses : SAnalysis(k, analysis)
  \/ \E k \in PassTimers, ok \in BOOLEAN : SSwap(k, ok)
  \/ \E k \in PassTimers : SPrice(k)
  \/ \E k \in PassTimers, shouldExecute \in BOOLEAN :
        \E adjusted \in AdjustedCapitals(JudgeEvaluation(sPass[k].analysis)) :
          SStrategy(k, shouldExecute, adjusted)
\* the health timers and the callbacks they leave suspended
HealthStep ==
  \/ \E a \in Ids : HealthTick(a)
  \/ \E a \in Ids, c \in KillKinds, raised \in BOOLEAN : KillResume(a, c, raised)
  \/ \E a \in Ids, raised \in BOOLEAN :
        \E balance \in Balances(records[a].capital) : UpdResume(a, raised, balance)

\* Spec: both spawn paths and the health timers, within one hour of the clock.
\* The spawner reads nothing the HealthMonitor writes, so what it can reach
\* does not depend on the clock or on kills.
Next ==
  \/ TickStep
  \/ PassStep
  \/ HealthStep

Spec == Init /\ [][Next]_vars

\* SpecHealth: the HealthMonitor with the clock and with killAgent called from
\* outside, fed by the one path that registers agents with it
NextHealth ==
  \/ (TickStep /\ Cardinality(Known') <= MaxSupervised)
  \/ HealthStep
  \/ \E a \in Ids : KillAgentCall(a)
  \/ Advance

SpecHealth == Init /\ [][NextHealth]_vars

\* SpecPass: monitorAndSpawn alone, as mainOld sets it up, with callbacks of
\* its interval overlapping
NextPass ==
  \/ \E k \in PassCallbacks : SStart(k)
  \/ \E k \in PassCallbacks, analysis \in Analyses : SAnalysis(k, analysis)
  \/ \E k \in PassCallbacks, ok \in BOOLEAN : SSwap(k, ok)
  \/ \E k \in PassCallbacks : SPrice(k)
  \/ \E k \in PassCallbacks, shouldExecute \in BOOLEAN :
        \E adjusted \in AdjustedCapitals(JudgeEvaluation(sPass[k].analysis)) :
          SStrategy(k, shouldExecute, adjusted)

SpecPass == Init /\ [][NextPass]_vars

\* SpecRecord: the HealthMonitor with the clock and with recordTrade called
\* from outside
NextRecord ==
  \/ (TickStep /\ Cardinality(Known') <= MaxSupervised)
  \/ HealthStep
  \/ \E a \in Ids, successful \in BOOLEAN, volume \in Volumes :
        RecordTradeCall(a, successful, volume)
  \/ Advance

SpecRecord == Init /\ [][NextRecord]_vars

\* SpecLive: the ticks, as far as they register MaxSupervised agents, and the
\* health timers under fairness: the clock advances, a scheduled interval
\* fires, and a balance read that a callback awaits returns or raises
NextLive ==
  \/ (TickStep /\ attempts' <= MaxSupervised)
  \/ HealthStep
  \/ Advance
KillReturns(a) == \E c \in KillKinds, raised \in BOOLEAN : KillResume(a, c, raised)
UpdReturns(a) ==
  \E raised \in BOOLEAN :
    \E balance \in Balances(records[a].capital) : UpdResume(a, raised, balance)
Fairness ==
  /\ WF_vars(Advance)
  /\ \A a \in Ids : /\ WF_vars(HealthTick(a))
                     /\ WF_vars(KillReturns(a))
                     /\ WF_vars(UpdReturns(a))

SpecLive == Init /\ [][NextLive]_vars /\ Fairness

\* SpecTicks: checkAndSpawnAgents alone, with callbacks of its interval
\* overlapping
NextTicks ==
  \/ \E k \in TickCallbacks : CStart(k)
  \/ \E k \in TickCallbacks, analysis \in Analyses : CAnalysis(k, analysis)
  \/ \E k \in TickCallbacks, ok \in BOOLEAN : CSwap(k, ok)
  \/ \E k \in TickCallbacks : CPrice(k)

SpecTicks == Init /\ [][NextTicks]_vars

\* SpecMetrics: the health timers of the agents the ticks register, with
\* balance reads that also give small losses
MetricRoiPercents == RoiPercents \cup {-8, -5}
MetricBalances(capital) == {(capital * (100 + p)) \div 100 : p \in MetricRoiPercents}
NextMetrics ==
  \/ (TickStep /\ Cardinality(Known') <= MaxSupervised)
  \/ \E a \in Ids : HealthTick(a)
  \/ \E a \in Ids, c \in KillKinds, raised \in BOOLEAN : KillResume(a, c, raised)
  \/ \E a \in Ids, raised \in BOOLEAN :
        \E balance \in MetricBalances(records[a].capital) : UpdResume(a, raised, balance)
  \/ Advance

SpecMetrics == Init /\ [][NextMetrics]_vars

\* SpecSwap: calls of the UniswapService, one at a time
NextSwap ==
  \/ \E tokenIn \in SwapTokens, amountIn \in SwapAmounts, slippage \in Slippages :
        ExecuteTrade(tokenIn, amountIn, slippage)
  \/ \E amountIn \in SwapAmounts, slippage \in Slippages :
        ExecuteTradeWithETH(amountIn, slippage)
  \/ \E result \in AllowanceResults : AllowanceRead(result)
  \/ \E result \in ApprovalResults : ApproveDone(result)
  \/ \E ok \in BOOLEAN : RouterReturns(ok)
  \/ SwapReturn

SpecSwap == Init /\ [][NextSwap]_vars

\* SpecEngine: calls of analyzeSentimentAndMarket, one at a time
NextEngine ==
  \/ \E posts \in 0..MaxPosts : AnalyzeSentimentAndMarket(posts)
  \/ \E kind \in ResponseKinds, answer \in Answers : QueryReturns(kind, answer)
  \/ EngineReturn

SpecEngine == Init /\ [][NextEngine]_vars

\* SpecLedger: the recordings executeTrade makes over many ticks, one after
\* another, for the token with a venue address.  A recording is _recordTrade
\* as a whole: the push, updatePosition, and the trim that follows it when
\* updatePosition has not raised.
LedgerToken == monitoredTokens[1]
LastRecorded == IF tradeHistory = <<>> THEN 0 ELSE tradeHistory[Len(tradeHistory)].txHash

RecordTrade(type) ==
  LET trade == Trade(LedgerToken, type, minCapital, LastRecorded + 1)
      ref == IF positions[LedgerToken] # 0 THEN positions[LedgerToken] ELSE 1
      obj == posHeap[ref]
  IN
  /\ LastRecorded < MaxRecordings
  /\ type = "sell" => -obj.amount < MaxSells * minCapital
  /\ IF UpdateRaises(type, obj, trade.amount)
       THEN /\ tradeHistory' = Append(tradeHistory, trade)
            /\ UNCHANGED <<positions, posHeap>>
       ELSE /\ posHeap' = [posHeap EXCEPT ![ref] = UpdatedPosition(type, obj, trade.amount)]
            /\ positions' = [positions EXCEPT ![LedgerToken] = ref]
            /\ tradeHistory' = Sliced(Append(tradeHistory, trade))
  /\ UNCHANGED <<activeAgents, attemptLog, nextId, attempts, cTick, sPass>>
  /\ UNCHANGED <<healthVars, callVars, minROI, now, calc, swap, engine>>

NextLedger == \E type \in {"buy", "sell"} : RecordTrade(type)

SpecLedger == Init /\ [][NextLedger]_vars

\* SpecCalc: the capital computations on their own, over all judgments
NextCalc ==
  \/ \E sentiment \in CalcSentiments, confidence \in CalcConfidences :
        Draw(sentiment, confidence)
  \/ Apply

SpecCalc == Init /\ [][NextCalc]_vars

(***************************************************************************)
(* Properties                                                              *)
(***************************************************************************)
Range(seq) == {seq[i] : i \in 1..Len(seq)}
Terminated(a) == terminationLog[a] # <<>>
TickCallsOf(calls) == SumOver(calls, CallKinds \ {KillCall("ext", "external")})
InactiveKill == KillCall("tick", "inactive")

\* C1: in every reachable state the number of active agents registered for a
\* token does not exceed maxAgentsPerToken
C1_AtMostMaxAgentsPerToken ==
  \A t \in Tokens : Cardinality(activeAgents[t]) <= maxAgentsPerToken

\* C2: termination is one-way: an id that killAgent has removed from the
\* supervised map never appears in it again
C2_TerminationOneWay ==
  [][\A a \in Ids : (Terminated(a) /\ a \notin agents) => a \notin agents']_vars

\* C3: once the kill path has completed for an agent, the agent is no longer
\* in the active-agent set of any token
C3_KilledAgentLeavesActiveSet ==
  \A a \in Ids :
    (Terminated(a) /\ a \notin agents /\ InFlight(a) = 0)
      => \A t \in Tokens : a \notin activeAgents[t]

\* C4: an attempt of checkAndSpawnAgents whose executeTrade yielded no transaction creates no agent;
\* an agent is created only after a successful trade
C4_NoAgentWithoutTrade ==
  \A i \in Ids :
    (attemptLog[i].path = "check" /\ attemptLog[i].agent # 0) => attemptLog[i].tx = "hash"

\* C5: checkAndSpawnAgents submits a swap for a token only while the token has fewer than
\* maxAgentsPerToken active agents
C5_CapacityBeforeSwap ==
  \A i \in Ids :
    (attemptLog[i].path = "check" /\ attemptLog[i].swap # "none")
      => attemptLog[i].active < maxAgentsPerToken

\* C6: a checkAndSpawnAgents tick that receives, for a token with a venue
\* address and free capacity, a judgment of sufficient confidence submits a
\* sell when sentiment <= -minSentiment, a buy when sentiment >= minSentiment,
\* and does nothing when sentiment is 0
C6_GateOnAbsoluteSentiment ==
  [][\A k \in TickTimers :
       LET p == cTick[k]
           q == cTick'[k]
           token == monitoredTokens[p.idx]
           submitted(type) == /\ attempts' = attempts + 1
                              /\ attemptLog'[attempts'].token = token
                              /\ attemptLog'[attempts'].swap = type
       IN (/\ p.pc = "analysis"
           /\ q # p
           /\ q.analysis.present
           /\ q.analysis.confidence >= minConfidence
           /\ token \in TOKEN_ADDRESSES
           /\ Cardinality(activeAgents[token]) < maxAgentsPerToken)
          => /\ q.analysis.sentiment <= -minSentiment => submitted("sell")
             /\ q.analysis.sentiment >= minSentiment => submitted("buy")
             /\ q.analysis.sentiment = 0
                  => attempts' = attempts /\ activeAgents' = activeAgents
     ]_vars

\* C7: every completed trade of the ledger whose recording has ended updated
\* the Position of its token and was recorded for every agent supervised for
\* that token
C7_CompletedTradeFullyRecorded ==
  \A i \in 1..Len(tradeHistory) :
    LET r == attemptLog[tradeHistory[i].txHash] IN
    (tradeHistory[i].status = "completed" /\ r.recording # "pending")
      => r.posUpdated /\ r.supervised \subseteq r.recorded

\* C8: a kill whose withdrawal balance read raises still completes: the
\* termination record exists, the agent is removed and killAgent has not
\* raised; every completed kill leaves the agent removed
C8_KillSurvivesWithdrawalFailure ==
  [][\A a \in Ids :
       /\ withdrawals'[a].raised > withdrawals[a].raised
            => a \notin agents' /\ Terminated(a)' /\ ~killRaised'
       /\ withdrawals'[a].reads > withdrawals[a].reads => a \notin agents'
     ]_vars
C8_Witness ==
  \E a \in Ids : withdrawals[a].raised > 0 /\ Terminated(a) /\ a \notin agents

\* C9: a killAgent call for an id that is no longer supervised changes
\* nothing: no withdrawal, no audit record, no error
C9_SecondKillIsNoOp ==
  [][killCalls'.absent # killCalls.absent
       => UNCHANGED <<spawnerVars, healthVars, minROI, now, calc, swap, engine>>]_vars
C9_Witness ==
  \E a \in Ids : killCalls.absent > 0 /\ Terminated(a) /\ a \notin agents

\* C10: a health check of an agent whose lastActivity is more than
\* maxInactivity hours old calls killAgent with the inactivity reason whatever
\* the ROI and the drawdown, and that kill ends with the agent removed; the
\* record it writes carries the inactivity reason
C10_InactivityFirst ==
  [][\A a \in Ids :
       /\ (/\ a \in agents
           /\ TickCallsOf(inflight'[a]) > TickCallsOf(inflight[a])
           /\ now - records[a].lastActivity > maxInactivity)
            => inflight'[a][InactiveKill] = inflight[a][InactiveKill] + 1
       /\ inflight'[a][InactiveKill] < inflight[a][InactiveKill]
            => /\ a \notin agents'
               /\ a \in agents => /\ Len(terminationLog'[a]) = Len(terminationLog[a]) + 1
                                  /\ terminationLog'[a][Len(terminationLog'[a])] = "inactive"
     ]_vars
C10_Witness ==
  \E a \in Ids : /\ "inactive" \in Range(terminationLog[a])
                 /\ a \notin agents
                 /\ minROI = 15
                 /\ records[a].roi < minROI
\* C11: the ROI a health tick compares against minROI has been computed from
\* a balance read; the tick never evaluates the value monitorAgent wrote
C11_CheckUsesRecomputedRoi ==
  [][\A a \in Ids :
       (/\ a \in agents
        /\ TickCallsOf(inflight'[a]) > TickCallsOf(inflight[a])
        /\ now - records[a].lastActivity <= maxInactivity)
         => records[a].measured
     ]_vars

\* C12: a health tick on an agent with capital 1.0, recent activity and
\* roi = -25 calls killAgent with the reason that cites the loss
C12_LossReasonAtMinus25 ==
  [][\A a \in Ids :
       (/\ a \in agents
        /\ TickCallsOf(inflight'[a]) > TickCallsOf(inflight[a])
        /\ now - records[a].lastActivity <= maxInactivity
        /\ records[a].capital = maxCapital
        /\ records[a].roi = -25)
         => inflight'[a][KillCall("tick", "loss")] = inflight[a][KillCall("tick", "loss")] + 1
     ]_vars
\* C13: a health tick whose balance read in _updateMetrics fails terminates
\* nothing: the agent stays supervised if it was, its timer keeps running, its
\* record is untouched and no termination is logged
C13_FailedReadDoesNotKill ==
  [][\A a \in Ids :
       (inflight'[a][Upd] < inflight[a][Upd] /\ a \in metricReadFailed')
         => /\ a \in agents => a \in agents'
            /\ timer'[a] = timer[a]
            /\ records'[a] = records[a]
            /\ terminationLog'[a] = terminationLog[a]
     ]_vars
C13_Witness ==
  \E a \in Ids : /\ a \in metricReadFailed
                 /\ a \in agents
                 /\ timer[a]
                 /\ InFlight(a) = 0
\* C14: whatever the outcome of a token's iteration in checkAndSpawnAgents
\* (no analysis, gate not passed, executeTrade null, recording raised, agent
\* refused), the tick goes on with the next monitored token, and it ends only
\* after the last one
C14_TokenFailureContained ==
  [][\A k \in TickTimers :
       LET p == cTick[k]
           q == cTick'[k]
       IN (p.pc # "idle" /\ (q.pc = "idle" \/ q.idx # p.idx))
            => IF p.idx < Len(monitoredTokens)
                 THEN q.pc = "analysis" /\ q.idx = p.idx + 1
                 ELSE q.pc = "idle"
     ]_vars
C14_Witness ==
  \E k \in TickTimers :
    /\ cTick[k].pc = "analysis"
    /\ cTick[k].idx = 2
    /\ CGate(cTick[k].analysis)
    /\ attempts = 1
    /\ attemptLog[1].token = monitoredTokens[1]
    /\ attemptLog[1].recording = "threw"
    /\ attemptLog[1].tx = "null"
\* the capital that scales linearly with the confidence between the bounds
LinearCapital(confidence) ==
  minCapital + ((maxCapital - minCapital) * (confidence - minConfidence))
                 \div (100 - minConfidence)

C17_LinearBetweenBounds ==
  (calc.pc = "applied" /\ calc.analysis.confidence >= minConfidence)
    => /\ calc.size = LinearCapital(calc.analysis.confidence)
       /\ calc.evaluation.capital = LinearCapital(calc.analysis.confidence)

\* C18: the evaluator returns shouldSpawn = TRUE exactly for the judgments with
\* |sentiment| >= minSentiment and confidence >= the confidence threshold
C18_ShouldSpawnIffThresholds ==
  calc.pc = "applied"
    => (calc.evaluation.shouldSpawn
          <=> (/\ Abs(calc.analysis.sentiment) >= minSentiment
               /\ calc.analysis.confidence >= minConfidence))
\* the buys of a token in the ledger whose recording has ended
RecordedBuys(token) ==
  {i \in 1..Len(tradeHistory) :
     /\ tradeHistory[i].token = token
     /\ tradeHistory[i].type = "buy"
     /\ attemptLog[tradeHistory[i].txHash].recording # "pending"}
SoldTokens == {tradeHistory[i].token : i \in {j \in 1..Len(tradeHistory) :
                                                tradeHistory[j].type = "sell"}}

\* C19: after the recorded buys of a token (and no sell), the token has a
\* Position whose amount is the sum of the amounts bought and whose
\* entryPrice is the volume-weighted average of the prices
C19_EntryPriceIsWeightedAverage ==
  \A token \in Tokens \ SoldTokens :
    LET buys == RecordedBuys(token)
        amounts == [i \in 1..Len(tradeHistory) |-> tradeHistory[i].amount]
        costs == [i \in 1..Len(tradeHistory) |->
                    tradeHistory[i].amount * BigIntOf(tradeHistory[i].price)]
    IN buys # {}
         => /\ positions[token] # 0
            /\ posHeap[positions[token]].amount = SumOver(amounts, buys)
            /\ posHeap[positions[token]].entryPrice * SumOver(amounts, buys)
                 = SumOver(costs, buys)

\* C20: the amount of a stored Position is never negative
C20_PositionAmountNonNegative ==
  \A token \in Tokens : positions[token] # 0 => posHeap[positions[token]].amount >= 0
InCapitalRange(capital) == minCapital <= capital /\ capital <= maxCapital

\* C15: the amount of every swap that went through and the capital in the
\* configuration of every spawned agent lie in [minCapital, maxCapital]
C15_CapitalWithinBounds ==
  /\ \A i \in 1..Len(tradeHistory) : InCapitalRange(tradeHistory[i].amount)
  /\ \A a \in Known : InCapitalRange(records[a].capital)
  /\ \A i \in Ids :
       (attemptLog[i].path = "pass" /\ attemptLog[i].agent # 0)
         => InCapitalRange(attemptLog[i].capital)
\* C21: the ledger never holds more than 100 trades, and it holds the most
\* recently recorded ones in the order of their recording
C21_LedgerBounded ==
  /\ Len(tradeHistory) <= LedgerCap
  /\ \A i \in 1..Len(tradeHistory) :
       tradeHistory[i].txHash = LastRecorded - Len(tradeHistory) + i
Counters(rec) == <<rec.successful, rec.failed, rec.totalVolume>>

\* C22: the HealthRecord of an agent a tick registers starts with
\* successful = 0, failed = 0 and totalVolume = 0, also when the tick's buy
\* went through at the venue; afterwards the counters change only in a step
\* that records a trade for the agent
C22_NewRecordStartsAtZero ==
  [][\A a \in Ids :
       /\ (records[a] = NoRecord /\ records'[a] # NoRecord)
            => Counters(records'[a]) = <<0, 0, 0>>
       /\ (records[a] # NoRecord /\ Counters(records'[a]) # Counters(records[a]))
            => \E i \in Ids : a \in attemptLog'[i].recorded \ attemptLog[i].recorded
     ]_vars
C22_Witness ==
  \E i \in Ids :
    /\ attemptLog[i].path = "check"
    /\ attemptLog[i].swap = "buy"
    /\ attemptLog[i].recording = "threw"
    /\ attemptLog[i].agent # 0
    /\ records[attemptLog[i].agent] # NoRecord
    /\ Counters(records[attemptLog[i].agent]) = <<0, 0, 0>>
\* C23: a tick that gets no analysis for a token (the source returned no
\* posts) submits no swap, records no trade and creates no agent, and goes on
C23_NoPostsNoEffect ==
  [][\A k \in TickTimers :
       (/\ cTick[k].pc = "analysis"
        /\ cTick'[k] # cTick[k]
        /\ ~cTick'[k].analysis.present)
         => /\ UNCHANGED <<attempts, attemptLog, tradeHistory, positions, posHeap>>
            /\ UNCHANGED <<activeAgents, nextId, agents, records, timer>>
            /\ cTick'[k] = Following(cTick[k])
     ]_vars
C23_Witness ==
  \E k \in TickTimers :
    /\ cTick[k].pc = "analysis"
    /\ cTick[k].idx = 2
    /\ ~cTick[k].analysis.present
    /\ attempts = 0
    /\ tradeHistory = <<>>
    /\ agents = {}
\* C24: once an agent has been removed from supervision by a kill, no health
\* evaluation and no kill is started for its id any more
C24_NothingRunsAfterRemoval ==
  [][\A a \in Ids :
       Terminated(a) => \A c \in CallKinds : inflight'[a][c] <= inflight[a][c]
     ]_vars
\* C25: a recordTrade on a supervised agent adds 1 to exactly one of the two
\* counters, adds the volume to totalVolume, sets lastActivity to the current
\* time and leaves roi, drawdown and capital as they are; nothing else changes
\* the lastActivity of a registered agent
C25_RecordTradeFrame ==
  [][\A a \in Ids :
       LET old == records[a]
           new == records'[a]
       IN old # NoRecord
            => /\ new.successful + new.failed # old.successful + old.failed
                    => /\ \/ new.successful = old.successful + 1 /\ new.failed = old.failed
                          \/ new.failed = old.failed + 1 /\ new.successful = old.successful
                       /\ new.totalVolume - old.totalVolume \in Volumes
                       /\ new.lastActivity = now
                       /\ new.roi = old.roi
                       /\ new.drawdown = old.drawdown
                       /\ new.capital = old.capital
               /\ new.lastActivity # old.lastActivity
                    => new.successful + new.failed = old.successful + old.failed + 1
     ]_vars
C25_Witness ==
  \E a \in agents :
    /\ records[a].failed = 1
    /\ records[a].successful = 1
    /\ records[a].totalVolume = 2 * minCapital
    /\ records[a].lastActivity > 0
    /\ records[a].measured
\* C26: a swap of an input token other than the wrapped base asset reaches
\* the router only after the allowance was found sufficient, or found
\* insufficient and an approval confirmed; when the allowance read or the
\* approval fails, the router is not called and the error is raised
C26_AllowanceBeforeSwap ==
  /\ (swap.submitted /\ swap.kind = "token" /\ swap.tokenIn # WETH_ADDRESS)
       => \/ swap.allowance = "sufficient"
          \/ swap.allowance = "insufficient" /\ swap.approval = "confirmed"
  /\ (swap.allowance = "failed" \/ swap.approval = "failed")
       => ~swap.submitted /\ swap.outcome = "raised"
C26_Witness ==
  /\ swap.tokenIn = "USDC"
  /\ swap.allowance = "insufficient"
  /\ swap.approval = "confirmed"
  /\ swap.submitted
  /\ swap.outcome = "tx"

\* C27: for both kinds of swap, amountOutMinimum is
\* floor(amountIn * (1 - slippage)) and so is at most amountIn
C27_MinOutIsFlooredProduct ==
  swap.submitted
    => /\ swap.amountOutMinimum = (swap.amountIn * (100000 - swap.slippage)) \div 100000
       /\ swap.amountOutMinimum <= swap.amountIn

\* C28: an analysis whose query failed, whose answer could not be parsed, or
\* that was given no posts, returns the fallback judgment
C28_FallbackOnFailureOrNoPosts ==
  (engine.pc = "done" /\ (engine.response \in {"failure", "unparseable"} \/ engine.posts = 0))
    => engine.result = Fallback
KillsInFlight(f, a) == SumOver(f[a], KillKinds)
C30_NoRetryWithinCycle ==
  [][/\ \A k \in TickTimers, t \in Tokens : cTick'[k].swaps[t] <= 1
     /\ \A a \in Ids :
          LET reads == withdrawals'[a].reads - withdrawals[a].reads
              ended == KillsInFlight(inflight, a) - KillsInFlight(inflight', a)
          IN reads = IF ended > 0 THEN ended ELSE 0
    ]_vars
C30_Witness ==
  /\ \E att \in Ids :
       /\ attemptLog[att].path = "check"
       /\ attemptLog[att].swap # "none"
       /\ attemptLog[att].tx = "null"
       /\ \A other \in Ids \ {att} : attemptLog[other].token # attemptLog[att].token
       /\ \E k \in TickTimers : cTick[k].pc = "idle"
  /\ \E a \in Ids :
       /\ Terminated(a)
       /\ withdrawals[a].reads = 1
       /\ withdrawals[a].raised = 1
Recorded(token) ==
  {i \in 1..Len(tradeHistory) :
     /\ tradeHistory[i].token = token
     /\ attemptLog[tradeHistory[i].txHash].recording = "done"}
RecordingPending(token) ==
  \E i \in 1..Len(tradeHistory) :
    /\ tradeHistory[i].token = token
    /\ attemptLog[tradeHistory[i].txHash].recording = "pending"
SignedAmounts ==
  [i \in 1..Len(tradeHistory) |->
     IF tradeHistory[i].type = "buy" THEN tradeHistory[i].amount
     ELSE 0 - tradeHistory[i].amount]

\* C32: once the recordings of a token have all ended, the amount of its
\* Position is the sum of the recorded buys minus the recorded sells, however
\* the recordings interleaved
C32_NoLostPositionUpdate ==
  \A token \in Tokens :
    (Recorded(token) # {} /\ ~RecordingPending(token))
      => /\ positions[token] # 0
         /\ posHeap[positions[token]].amount = SumOver(SignedAmounts, Recorded(token))
\* the amount of the trade an attempt has put into the ledger
AmountOf(att) ==
  LET i == CHOOSE j \in 1..Len(tradeHistory) : tradeHistory[j].txHash = att
  IN tradeHistory[i].amount

\* C33: the recording of a sell stores, as the token's Position, the object
\* it worked on with amount decreased by the trade amount and entryPrice as
\* it was; no other Position object changes
C33_SellKeepsEntryPrice ==
  [][\A k \in PassCallbacks :
       LET p == sPass[k]
           token == monitoredTokens[p.idx]
       IN (/\ p.pc = "price"
           /\ sPass'[k] # p
           /\ Direction(p.analysis.sentiment) = "sell")
          => /\ positions'[token] = p.ref
             /\ posHeap'[p.ref].amount = posHeap[p.ref].amount - AmountOf(p.att)
             /\ posHeap'[p.ref].entryPrice = posHeap[p.ref].entryPrice
             /\ \A i \in Ids \ {p.ref} : posHeap'[i] = posHeap[i]
    ]_vars
C33_Witness ==
  /\ positions["ETH"] # 0
  /\ posHeap[positions["ETH"]].amount = 0 - 2 * minCapital
  /\ posHeap[positions["ETH"]].entryPrice = 0
  /\ \A i \in Ids : attemptLog[i].swap = "sell" /\ attemptLog[i].recording = "done"
\* the loss a roi stands for
LossOf(roi) == IF roi < 0 THEN 0 - roi ELSE 0
Larger(x, y) == IF x >= y THEN x ELSE y

\* C34: the drawdown of a supervised agent never decreases: after every step
\* it is the larger of what it was and the loss of the roi now stored, so it is
\* the largest loss observed so far
C34_DrawdownIsPeakLoss ==
  [][\A a \in Ids :
       (records[a] # NoRecord /\ records'[a] # NoRecord)
         => records'[a].drawdown = Larger(records[a].drawdown, LossOf(records'[a].roi))
    ]_vars
\* C35: a health check starts a kill for low ROI only for an agent whose
\* ROI, computed from a balance read, is below minROI; an agent that has not
\* been measured yet is not terminated for its ROI
RoiKill == KillCall("tick", "roi")
C35_HealthyAgentSurvivesCheck ==
  [][\A a \in Ids :
       inflight'[a][RoiKill] > inflight[a][RoiKill]
         => records[a].measured /\ records[a].roi < minROI
    ]_vars
\* C36: with callbacks of checkAndSpawnAgents overlapping, an id enters a
\* token's set of active agents only while the set holds fewer than
\* maxAgentsPerToken ids, and the set never holds more
C36_CheckAndInsertAtomic ==
  [][\A t \in Tokens :
       /\ activeAgents'[t] # activeAgents[t]
            => Cardinality(activeAgents[t]) < maxAgentsPerToken
       /\ Cardinality(activeAgents'[t]) <= maxAgentsPerToken
    ]_vars
C36_Witness ==
  \E i, j \in Ids :
    /\ i # j
    /\ attemptLog[i].path = "check" /\ attemptLog[j].path = "check"
    /\ attemptLog[i].token = attemptLog[j].token
    /\ attemptLog[i].active = 0 /\ attemptLog[j].active = 0
    /\ attemptLog[i].swap # "none" /\ attemptLog[j].swap # "none"
    /\ attemptLog[i].tx # "none" /\ attemptLog[j].tx # "none"
    /\ attemptLog[i].agent # 0
    /\ attemptLog[j].agent = 0
\* C37: for one agent the balance read of _withdrawFunds is made at most
\* once, whatever kills are started for it
C37_OneWithdrawalPerAgent ==
  \A a \in Ids : withdrawals[a].reads <= 1

\* C38: an id in the supervised map has its health timer scheduled
C38_SupervisedHasTimer ==
  \A a \in agents : timer[a]
\* C39: every id in the supervised map is in the set of active agents of
\* exactly one token
TokensOf(a) == {t \in Tokens : a \in activeAgents[t]}
C39_SupervisedIsActiveOnce ==
  \A a \in agents : Cardinality(TokensOf(a)) = 1
C39_Witness ==
  \E a \in agents :
    /\ TokensOf(a) = {"BTC"}
    /\ Terminated(a)
    /\ records[a].measured
\* C40: a supervised agent whose lastActivity stays at its registration, far
\* enough before the end of the clock, is eventually terminated: a kill
\* writes its audit record and removes it, whatever the balance reads do
C40_InactiveAgentEventuallyTerminated ==
  \A a \in Ids :
    (a \in agents /\ records[a].lastActivity + maxInactivity < MaxTime) ~> Terminated(a)
C40_Witness ==
  \E a \in Ids :
    /\ terminationLog[a] = <<"inactive">>
    /\ a \notin agents
    /\ ~records[a].measured
    /\ a \in metricReadFailed
    /\ withdrawals[a].reads = 1
    /\ withdrawals[a].raised = 1
====
